---- MODULE Spec2Model ----
(***************************************************************************)
(* Donor management (donor_management.py): the SQLite store of donors,     *)
(* donations and campaigns, the donation recorder with its tier            *)
(* recalculation, the acknowledge / receipt flags and the gateway payment  *)
(* flow.  Money is counted in whole currency units; a gateway amount is    *)
(* given in minor units (cents).  Every state of the model is a committed  *)
(* state of the store: one step is one committed transaction (or one       *)
(* external call) of a handler, and pc names the handler's position.       *)
(* Handlers run one at a time: while pc is not "idle" only the handler in  *)
(* progress takes steps.                                                   *)
(*                                                                         *)
(* Spec is the service's writing handlers.  SpecRecorder, SpecFlags and    *)
(* SpecKeys are the service restricted to the handlers that write the      *)
(* state a property reads; SpecTier is the tier recalculation over a range *)
(* of totals.  The reports read the store and leave it unchanged: each has *)
(* a specification of its own, the recorder together with the report.      *)
(***************************************************************************)
EXTENDS Integers, Sequences, FiniteSets

VARIABLES
    donors,      \* table donors: row id -> [email, tier, total_given, campaigns]
    donations,   \* table donations: row id -> donation row
    campaigns,   \* table campaigns: row id -> [name, goal]
    charges,     \* the gateway's side: number of charges that succeeded
    pc,          \* position of the handler in progress, "idle" between calls
    call,        \* arguments of the handler in progress
    result,      \* outcome of the last call: "ok", the exception raised, "None",
                 \* or "pending" while a call is in progress
    report       \* the report the last call returned, NoReport if it returned none

vars == <<donors, donations, campaigns, charges, pc, call, result, report>>

----------------------------------------------------------------------------
(* Bounds of the model *)

MaxDonors == 2
MaxDonations == 2
MaxCampaigns == 2
MaxCharges == 1
\* donations stored when a report is taken
MaxReported == 3
\* donations stored when the retention report is taken
MaxRetention == 4
\* InitTier draws a first donation from -TotalMargin .. platinum + TotalMargin
TotalMargin == 1000

Emails == {"a@test.com", "b@test.com", "c@test.com"}
TwoEmails == {"a@test.com", "b@test.com"}
CampaignNames == {"Fund", "Capital"}
Amounts == {-1000, 1000, 50000}
AmountsCents == {100000}
Goals == {10000}
ThisYear == 2026
ReceivedAts == {0}       \* 0: received_at not supplied (None)
Methods == {"credit_card"}
OneAmount == {1000}
OneCampaign == {"Fund"}
OneEmail == {"a@test.com"}
SummaryGoals == {0, 3000}
\* received_at of a backdated donation: not supplied, last year, the year before
RetentionYears == {0, ThisYear - 1, ThisYear - 2}
Thresholds == {1000, 10000}     \* 10000: the default threshold of major_gifts
DonorIds == 1..(MaxDonors + 1)
DonationIds == 1..(MaxDonations + 1)

----------------------------------------------------------------------------
(* Enums and thresholds *)

BRONZE == "bronze"
SILVER == "silver"
GOLD == "gold"
PLATINUM == "platinum"
DonorTier == {BRONZE, SILVER, GOLD, PLATINUM}

TIER_THRESHOLDS ==
    [bronze |-> 0, silver |-> 1000, gold |-> 10000, platinum |-> 50000]

STRIPE == "stripe"

NoCall == [op |-> "none"]
NoReport == [op |-> "none"]

----------------------------------------------------------------------------
(* Rows and lookups *)

\* Donor(...) as add_donor builds it: tier bronze, total 0, no campaigns
Donor(email) ==
    [email |-> email, tier |-> BRONZE, total_given |-> 0, campaigns |-> <<>>]

\* Optional[Donor]: <<row>> or <<>> (None)
get_donor(donor_id) ==
    IF donor_id \in DOMAIN donors THEN <<donors[donor_id]>> ELSE <<>>

\* Optional[Donation] read from a donations table
get_donation(dn, donation_id) ==
    IF donation_id \in DOMAIN dn THEN <<dn[donation_id]>> ELSE <<>>

\* x in a Python list
InList(x, list) == \E i \in DOMAIN list : list[i] = x

\* mutant of EmailUnique: the column is not declared UNIQUE
EmailNotChecked(email) == TRUE

\* the UNIQUE constraint on donors.email
EmailUnique(email) == \A i \in DOMAIN donors : donors[i].email # email

\* the UNIQUE constraint on campaigns.name
NameUnique(name) == \A i \in DOMAIN campaigns : campaigns[i].name # name

----------------------------------------------------------------------------
(* Tier policy *)

\* mutant of _calculate_tier: the thresholds compared with > instead of >=
_calculate_tier_strict(total_given) ==
    IF total_given > TIER_THRESHOLDS[PLATINUM] THEN PLATINUM
    ELSE IF total_given > TIER_THRESHOLDS[GOLD] THEN GOLD
    ELSE IF total_given > TIER_THRESHOLDS[SILVER] THEN SILVER
    ELSE BRONZE

_calculate_tier(total_given) ==
    IF total_given >= TIER_THRESHOLDS[PLATINUM] THEN PLATINUM
    ELSE IF total_given >= TIER_THRESHOLDS[GOLD] THEN GOLD
    ELSE IF total_given >= TIER_THRESHOLDS[SILVER] THEN SILVER
    ELSE BRONZE

\* mutant of upgrade_tier: the tier is raised, never lowered
upgrade_tier_only_up(ds, donor_id) ==
    IF donor_id \notin DOMAIN ds THEN ds
    ELSE LET new_tier == _calculate_tier(ds[donor_id].total_given)
         IN  IF TIER_THRESHOLDS[new_tier] > TIER_THRESHOLDS[ds[donor_id].tier]
             THEN [ds EXCEPT ![donor_id].tier = new_tier]
             ELSE ds

\* the donors table after upgrade_tier(donor_id)
upgrade_tier(ds, donor_id) ==
    IF donor_id \notin DOMAIN ds THEN ds
    ELSE LET new_tier == _calculate_tier(ds[donor_id].total_given)
         IN  IF new_tier # ds[donor_id].tier
             THEN [ds EXCEPT ![donor_id].tier = new_tier]
             ELSE ds

----------------------------------------------------------------------------
(* Campaigns and donors *)

create_campaign(name, goal) ==
    /\ pc = "idle"
    /\ Len(campaigns) < MaxCampaigns \/ ~NameUnique(name)
    /\ IF NameUnique(name)
       THEN /\ campaigns' = Append(campaigns, [name |-> name, goal |-> goal])
            /\ result' = "ok"
       ELSE /\ campaigns' = campaigns
            /\ result' = "IntegrityError"
    /\ report' = NoReport
    /\ UNCHANGED <<donors, donations, charges, pc, call>>

add_donor(email) ==
    /\ pc = "idle"
    /\ Len(donors) < MaxDonors \/ ~EmailUnique(email)
    /\ IF EmailUnique(email)
       THEN /\ donors' = Append(donors, Donor(email))
            /\ result' = "ok"
       ELSE /\ donors' = donors
            /\ result' = "IntegrityError"
    /\ report' = NoReport
    /\ UNCHANGED <<donations, campaigns, charges, pc, call>>

----------------------------------------------------------------------------
(* Donations *)

\* the Donation record_donation builds and inserts
Donation(donor_id, amount, campaign, method, now, stripe_charge_id) ==
    [donor_id |-> donor_id, amount |-> amount, campaign |-> campaign,
     method |-> method, acknowledged |-> FALSE, tax_receipt_sent |-> FALSE,
     received_at |-> now, stripe_charge_id |-> stripe_charge_id]

\* mutant of UpdateTotals: the total is overwritten, not added to
UpdateTotalsOverwrite(ds, donor_id, amount) ==
    [i \in DOMAIN ds |->
        IF i = donor_id THEN [ds[i] EXCEPT !.total_given = amount] ELSE ds[i]]

\* UPDATE donors SET total_given = total_given + ? WHERE id = ?
UpdateTotals(ds, donor_id, amount) ==
    [i \in DOMAIN ds |->
        IF i = donor_id
        THEN [ds[i] EXCEPT !.total_given = ds[i].total_given + amount]
        ELSE ds[i]]

\* mutant of AddCampaign: the campaign is appended without the membership test
AddCampaignAlways(ds, donor_id, campaign) ==
    IF donor_id \in DOMAIN ds
    THEN [ds EXCEPT ![donor_id].campaigns = Append(ds[donor_id].campaigns, campaign)]
    ELSE ds

\* add the campaign to the donor's campaign list unless it is there
AddCampaign(ds, donor_id, campaign) ==
    IF donor_id \in DOMAIN ds /\ ~InList(campaign, ds[donor_id].campaigns)
    THEN [ds EXCEPT ![donor_id].campaigns = Append(ds[donor_id].campaigns, campaign)]
    ELSE ds

\* mutant of DonorFound: the donor is not looked up
DonorNotLookedUp(donor_id) == TRUE

\* the guard of record_donation: the donor must exist
DonorFound(donor_id) == get_donor(donor_id) # <<>>

\* received_at or datetime.utcnow()
Now(received_at) == IF received_at # 0 THEN received_at ELSE ThisYear

\* record_donation up to the commit of its transaction; the tier is
\* recalculated by the step that follows (RecordTier)
Record(donor_id, amount, campaign, method, received_at, stripe_charge_id) ==
    IF ~DonorFound(donor_id)
    THEN /\ result' = "ValueError"
         /\ pc' = "idle"
         /\ call' = NoCall
         /\ UNCHANGED <<donors, donations>>
    ELSE /\ donations' = Append(donations,
                Donation(donor_id, amount, campaign, method,
                         Now(received_at), stripe_charge_id))
         /\ donors' = AddCampaign(UpdateTotals(donors, donor_id, amount),
                                  donor_id, campaign)
         /\ pc' = "tier"
         /\ call' = [op |-> "upgrade_tier", donor_id |-> donor_id]
         /\ result' = "pending"

record_donation(donor_id, amount, campaign, method, received_at) ==
    /\ pc = "idle"
    /\ Record(donor_id, amount, campaign, method, received_at, 0)
    /\ report' = NoReport
    /\ UNCHANGED <<campaigns, charges>>

\* self.upgrade_tier(donor_id); return donation
RecordTier ==
    /\ pc = "tier"
    /\ donors' = upgrade_tier(donors, call.donor_id)
    /\ pc' = "idle"
    /\ call' = NoCall
    /\ result' = "ok"
    /\ report' = NoReport
    /\ UNCHANGED <<donations, campaigns, charges>>

----------------------------------------------------------------------------
(* Gateway payment flow (process_stripe_payment) *)

\* mutant of CentsToAmount: the minor units are recorded as they are
CentsAsAmount(amount_cents) == amount_cents

\* amount_cents / 100: minor units to currency units
CentsToAmount(amount_cents) == amount_cents \div 100

\* the call starts with the import of the gateway's package
process_stripe_payment(donor_id, amount_cents, campaign, installed) ==
    /\ pc = "idle"
    /\ charges < MaxCharges
    /\ Len(donations) < MaxDonations
    /\ IF installed
       THEN /\ pc' = "charge"
            /\ call' = [op |-> "process_stripe_payment", donor_id |-> donor_id,
                        amount_cents |-> amount_cents, campaign |-> campaign,
                        stripe_charge_id |-> 0]
            /\ result' = "pending"
       ELSE /\ result' = "ImportError"
            /\ UNCHANGED <<pc, call>>
    /\ report' = NoReport
    /\ UNCHANGED <<donors, donations, campaigns, charges>>

\* the external charge: a settlement reference, or the gateway's error
StripeCharge(succeeds) ==
    /\ pc = "charge"
    /\ IF succeeds
       THEN /\ charges' = charges + 1
            /\ call' = [call EXCEPT !.stripe_charge_id = charges + 1]
            /\ pc' = "charged"
            /\ result' = result
       ELSE /\ result' = "StripeError"
            /\ pc' = "idle"
            /\ call' = NoCall
            /\ charges' = charges
    /\ report' = NoReport
    /\ UNCHANGED <<donors, donations, campaigns>>

\* record_donation(donor_id, amount_cents / 100, campaign, method=STRIPE,
\*                 stripe_charge_id=intent["id"])
StripeRecord ==
    /\ pc = "charged"
    /\ Record(call.donor_id, CentsToAmount(call.amount_cents), call.campaign,
              STRIPE, 0, call.stripe_charge_id)
    /\ report' = NoReport
    /\ UNCHANGED <<campaigns, charges>>

----------------------------------------------------------------------------
(* Acknowledgement and receipt *)

\* mutant of SetAcknowledged: the flag is flipped, not set
SetAcknowledgedFlipped(dn, donation_id) ==
    [i \in DOMAIN dn |->
        IF i = donation_id
        THEN [dn[i] EXCEPT !.acknowledged = ~dn[i].acknowledged]
        ELSE dn[i]]

\* UPDATE donations SET acknowledged = 1 WHERE id = ?
SetAcknowledged(dn, donation_id) ==
    [i \in DOMAIN dn |->
        IF i = donation_id THEN [dn[i] EXCEPT !.acknowledged = TRUE] ELSE dn[i]]

\* mutant of SetReceiptSent: only tax_receipt_sent is set
SetReceiptSentOnly(dn, donation_id) ==
    [i \in DOMAIN dn |->
        IF i = donation_id THEN [dn[i] EXCEPT !.tax_receipt_sent = TRUE] ELSE dn[i]]

\* UPDATE donations SET tax_receipt_sent = 1, acknowledged = 1 WHERE id = ?
SetReceiptSent(dn, donation_id) ==
    [i \in DOMAIN dn |->
        IF i = donation_id
        THEN [dn[i] EXCEPT !.tax_receipt_sent = TRUE, !.acknowledged = TRUE]
        ELSE dn[i]]

\* mutant of Returned: a missing row raises the not-found error
ReturnedOrRaised(row) == IF row = <<>> THEN "ValueError" ELSE "ok"

\* what a handler returning Optional[Donation] gives its caller
Returned(row) == IF row = <<>> THEN "None" ELSE "ok"

acknowledge_donation(donation_id) ==
    /\ pc = "idle"
    /\ donations' = SetAcknowledged(donations, donation_id)
    /\ result' = Returned(get_donation(donations', donation_id))
    /\ report' = NoReport
    /\ UNCHANGED <<donors, campaigns, charges, pc, call>>

send_receipt(donation_id) ==
    /\ pc = "idle"
    /\ donations' = SetReceiptSent(donations, donation_id)
    /\ result' = Returned(get_donation(donations', donation_id))
    /\ report' = NoReport
    /\ UNCHANGED <<donors, campaigns, charges, pc, call>>

----------------------------------------------------------------------------
(* Reports.  A rounded number is counted in units of its last decimal:     *)
(* round(x, 2) in hundredths, round(x, 1) in tenths, round(x, 3) in        *)
(* thousandths.                                                            *)

\* round(n / d) to an integer, d > 0, a half going to the even neighbour
Round(n, d) ==
    LET q == (2 * n + d) \div (2 * d)
    IN  IF (2 * n + d) % (2 * d) = 0 /\ q % 2 = 1 THEN q - 1 ELSE q

\* mutant of list_donations: the donor filter is left out
list_donations_all(donor_id) == donations

\* list_donations(donor_id=donor_id): the donor's rows
list_donations(donor_id) ==
    SelectSeq(donations, LAMBDA row : row.donor_id = donor_id)

\* donations[-1].received_at of the rows ordered by received_at DESC
first_donation(rows) ==
    CHOOSE at \in {rows[i].received_at : i \in DOMAIN rows} :
        \A i \in DOMAIN rows : at <= rows[i].received_at

\* donations[0].received_at of the rows ordered by received_at DESC
last_donation(rows) ==
    CHOOSE at \in {rows[i].received_at : i \in DOMAIN rows} :
        \A i \in DOMAIN rows : at >= rows[i].received_at

\* the dictionary ltv returns for a stored donor; ltv and average_gift in
\* hundredths
LtvReport(donor_id) ==
    LET donor == donors[donor_id]
        rows == list_donations(donor_id)
    IN  IF rows = <<>>
        THEN [op |-> "ltv", donor_id |-> donor_id, ltv |-> 0,
              donation_count |-> 0, average_gift |-> 0, campaigns |-> <<>>]
        ELSE [op |-> "ltv", donor_id |-> donor_id, tier |-> donor.tier,
              ltv |-> Round(donor.total_given * 100, 1),
              donation_count |-> Len(rows),
              average_gift |-> Round(donor.total_given * 100, Len(rows)),
              first_donation |-> first_donation(rows),
              last_donation |-> last_donation(rows),
              campaigns |-> donor.campaigns]

ltv(donor_id) ==
    /\ pc = "idle"
    /\ IF get_donor(donor_id) = <<>>
       THEN /\ result' = "ValueError"
            /\ report' = NoReport
       ELSE /\ result' = "ok"
            /\ report' = LtvReport(donor_id)
    /\ UNCHANGED <<donors, donations, campaigns, charges, pc, call>>

\* Optional[Campaign]: the row with this name, <<row>> or <<>> (None)
get_campaign(name) ==
    LET rows == SelectSeq(campaigns, LAMBDA row : row.name = name)
    IN  IF rows = <<>> THEN <<>> ELSE <<Head(rows)>>

RECURSIVE SumOf(_)
\* SUM(amount) over rows, 0 for none (NULL or 0)
SumOf(rows) ==
    IF rows = <<>> THEN 0 ELSE Head(rows).amount + SumOf(Tail(rows))

\* MAX(amount) over rows, 0 for none (NULL or 0)
MaxOf(rows) ==
    IF rows = <<>> THEN 0
    ELSE CHOOSE amount \in {rows[i].amount : i \in DOMAIN rows} :
            \A i \in DOMAIN rows : amount >= rows[i].amount

\* mutant of progress_pct: the quotient is not scaled to a percentage
progress_fraction(total_raised, goal) ==
    IF goal # 0 THEN Round(total_raised * 10, goal) ELSE 0

\* round(total_raised / goal * 100, 1) if goal else 0, in tenths; goal >= 0
progress_pct(total_raised, goal) ==
    IF goal # 0 THEN Round(total_raised * 1000, goal) ELSE 0

\* the dictionary campaign_summary returns; total_raised, average_gift and
\* largest_gift in hundredths, progress_pct in tenths (recurring_donors is
\* left out: the model records no donation type)
CampaignSummary(campaign_name) ==
    LET rows == SelectSeq(donations, LAMBDA row : row.campaign = campaign_name)
        campaign == get_campaign(campaign_name)
        total_raised == SumOf(rows)
        goal == IF campaign # <<>> THEN campaign[1].goal ELSE 0
    IN  [op |-> "campaign_summary", campaign |-> campaign_name, goal |-> goal,
         total_raised |-> Round(total_raised * 100, 1),
         progress_pct |-> progress_pct(total_raised, goal),
         donor_count |-> Len(rows),
         average_gift |->
            IF rows = <<>> THEN 0 ELSE Round(total_raised * 100, Len(rows)),
         largest_gift |-> Round(MaxOf(rows) * 100, 1)]

campaign_summary(campaign_name) ==
    /\ pc = "idle"
    /\ result' = "ok"
    /\ report' = CampaignSummary(campaign_name)
    /\ UNCHANGED <<donors, donations, campaigns, charges, pc, call>>

\* mutant of MajorGift: a total equal to the threshold does not qualify
MajorGiftAbove(total_given, threshold) == total_given > threshold

\* WHERE total_given >= ?
MajorGift(total_given, threshold) == total_given >= threshold

\* the results SELECT ... WHERE total_given >= ? ORDER BY total_given DESC can
\* give: the qualifying donors, each once, in an order descending by total
\* (the order of donors with equal totals is the database's choice)
MajorGiftRows(threshold) ==
    LET ids == {d \in DOMAIN donors : MajorGift(donors[d].total_given, threshold)}
        n == Cardinality(ids)
    IN  {rows \in [1..n -> ids] :
            /\ \A i, j \in 1..n : rows[i] = rows[j] => i = j
            /\ \A i, j \in 1..n :
                  i < j => donors[rows[i]].total_given >= donors[rows[j]].total_given}

\* the list major_gifts returns
major_gifts(threshold) ==
    /\ pc = "idle"
    /\ result' = "ok"
    /\ \E rows \in MajorGiftRows(threshold) :
          report' = [op |-> "major_gifts", threshold |-> threshold,
                     gifts |-> [i \in DOMAIN rows |->
                        [id |-> rows[i], email |-> donors[rows[i]].email,
                         tier |-> donors[rows[i]].tier,
                         total_given |-> donors[rows[i]].total_given]]]
    /\ UNCHANGED <<donors, donations, campaigns, charges, pc, call>>

\* strftime('%Y', received_at): the model keeps the year of a timestamp
Year(received_at) == received_at

\* SELECT DISTINCT donor_id FROM donations WHERE strftime('%Y', received_at) = ?
DonorsInYear(year) ==
    {donations[i].donor_id :
        i \in {j \in DOMAIN donations : Year(donations[j].received_at) = year}}

\* mutant of lapsed: every donor of last year counts as lapsed
lapsed_all(this_year_donors, last_year_donors) == last_year_donors

retained(this_year_donors, last_year_donors) ==
    this_year_donors \cap last_year_donors

lapsed(this_year_donors, last_year_donors) ==
    last_year_donors \ this_year_donors

new_donors(this_year_donors, last_year_donors) ==
    this_year_donors \ last_year_donors

\* the dictionary retention_report returns; retention_rate in thousandths
RetentionReport(this_year) ==
    LET last_year == this_year - 1
        this_year_donors == DonorsInYear(this_year)
        last_year_donors == DonorsInYear(last_year)
    IN  [op |-> "retention_report", year |-> this_year,
         retained_donors |->
            Cardinality(retained(this_year_donors, last_year_donors)),
         lapsed_donors |->
            Cardinality(lapsed(this_year_donors, last_year_donors)),
         new_donors |->
            Cardinality(new_donors(this_year_donors, last_year_donors)),
         retention_rate |->
            IF last_year_donors # {}
            THEN Round(1000 * Cardinality(
                        retained(this_year_donors, last_year_donors)),
                       Cardinality(last_year_donors))
            ELSE 0]

retention_report ==
    /\ pc = "idle"
    /\ result' = "ok"
    /\ report' = RetentionReport(ThisYear)
    /\ UNCHANGED <<donors, donations, campaigns, charges, pc, call>>

\* mutant of TierRows: the donors are not grouped by tier
TierRowsAll(tier) == donors

\* the group of a tier in SELECT ... FROM donors GROUP BY tier
TierRows(tier) == SelectSeq(donors, LAMBDA row : row.tier = tier)

RECURSIVE SumTotalGiven(_)
\* SUM(total_given) over rows
SumTotalGiven(rows) ==
    IF rows = <<>> THEN 0
    ELSE Head(rows).total_given + SumTotalGiven(Tail(rows))

\* the dictionary tier_summary returns: an entry for each tier that has a
\* row; total_given in hundredths
TierSummary ==
    [tier \in {donors[d].tier : d \in DOMAIN donors} |->
        [count |-> Len(TierRows(tier)),
         total_given |-> Round(SumTotalGiven(TierRows(tier)) * 100, 1)]]

tier_summary ==
    /\ pc = "idle"
    /\ result' = "ok"
    /\ report' = [op |-> "tier_summary", tiers |-> TierSummary]
    /\ UNCHANGED <<donors, donations, campaigns, charges, pc, call>>

----------------------------------------------------------------------------

Init ==
    /\ donors = <<>>
    /\ donations = <<>>
    /\ campaigns = <<>>
    /\ charges = 0
    /\ pc = "idle"
    /\ call = NoCall
    /\ result = "ok"
    /\ report = NoReport

\* the recorder's handlers, record_donation with the inputs given and at
\* most max_donations donations stored
RecorderOf(emails, amounts, names, received_ats, max_donations) ==
    \/ \E email \in emails : add_donor(email)
    \/ \E donor_id \in DonorIds, amount \in amounts, campaign \in names,
          method \in Methods, received_at \in received_ats :
            /\ Len(donations) < max_donations \/ ~DonorFound(donor_id)
            /\ record_donation(donor_id, amount, campaign, method, received_at)
    \/ RecordTier

Recorder(emails, amounts, names) ==
    RecorderOf(emails, amounts, names, ReceivedAts, MaxDonations)

Campaigns ==
    \E name \in CampaignNames, goal \in Goals : create_campaign(name, goal)

Flags ==
    \/ \E donation_id \in DonationIds : acknowledge_donation(donation_id)
    \/ \E donation_id \in DonationIds : send_receipt(donation_id)

Gateway ==
    \/ \E donor_id \in DonorIds, amount_cents \in AmountsCents,
          campaign \in CampaignNames, installed \in BOOLEAN :
            process_stripe_payment(donor_id, amount_cents, campaign, installed)
    \/ \E succeeds \in BOOLEAN : StripeCharge(succeeds)
    \/ StripeRecord

\* the whole service
Next ==
    \/ Campaigns
    \/ Recorder(TwoEmails, Amounts, CampaignNames)
    \/ Flags
    \/ Gateway

Spec == Init /\ [][Next]_vars

\* donors, the donation recorder and the gateway flow that records through it
NextRecorder ==
    \/ Recorder(TwoEmails, Amounts, CampaignNames)
    \/ Gateway

SpecRecorder == Init /\ [][NextRecorder]_vars

\* donations of one amount and campaign, and their flags
NextFlags ==
    \/ Recorder(Emails, OneAmount, OneCampaign)
    \/ Flags

SpecFlags == Init /\ [][NextFlags]_vars

\* the unique keys: donors, campaigns, and donations of one amount
NextKeys ==
    \/ Campaigns
    \/ Recorder(Emails, OneAmount, CampaignNames)

SpecKeys == Init /\ [][NextKeys]_vars

\* the lifetime value report over the recorder
NextLtv ==
    \/ RecorderOf(TwoEmails, Amounts, CampaignNames, ReceivedAts, MaxReported)
    \/ \E donor_id \in DonorIds : ltv(donor_id)

SpecLtv == Init /\ [][NextLtv]_vars

\* the campaign summary over campaigns with and without a goal and the
\* donations of one donor
NextSummary ==
    \/ \E name \in CampaignNames, goal \in SummaryGoals :
            create_campaign(name, goal)
    \/ RecorderOf(OneEmail, Amounts, CampaignNames, ReceivedAts, MaxReported)
    \/ \E name \in CampaignNames : campaign_summary(name)

SpecSummary == Init /\ [][NextSummary]_vars

\* the major gifts list over two donors
NextMajor ==
    \/ RecorderOf(TwoEmails, Amounts, OneCampaign, ReceivedAts, MaxReported)
    \/ \E threshold \in Thresholds : major_gifts(threshold)

SpecMajor == Init /\ [][NextMajor]_vars

\* the retention report over three stored donors and their donations of
\* this year and the two before
InitRetention ==
    /\ donors = <<Donor("a@test.com"), Donor("b@test.com"), Donor("c@test.com")>>
    /\ donations = <<>>
    /\ campaigns = <<>>
    /\ charges = 0
    /\ pc = "idle"
    /\ call = NoCall
    /\ result = "ok"
    /\ report = NoReport

NextRetention ==
    \/ \E donor_id \in DonorIds, amount \in OneAmount, campaign \in OneCampaign,
          method \in Methods, received_at \in RetentionYears :
            /\ Len(donations) < MaxRetention
            /\ record_donation(donor_id, amount, campaign, method, received_at)
    \/ RecordTier
    \/ retention_report

SpecRetention == InitRetention /\ [][NextRetention]_vars

\* the tier summary over two donors
NextTierSummary ==
    \/ RecorderOf(TwoEmails, Amounts, OneCampaign, ReceivedAts, MaxReported)
    \/ tier_summary

SpecTierSummary == Init /\ [][NextTierSummary]_vars

----------------------------------------------------------------------------
(* The tier policy on its own: a new donor's first donation, of any amount *)
(* in the range, is committed; the step left is the tier recalculation.    *)

TierTotals == (0 - TotalMargin) .. (TIER_THRESHOLDS[PLATINUM] + TotalMargin)

InitTier ==
    /\ \E amount \in TierTotals :
         /\ donations = <<Donation(1, amount, "Fund", "credit_card", ThisYear, 0)>>
         /\ donors = AddCampaign(
                UpdateTotals(<<Donor("a@test.com")>>, 1, amount), 1, "Fund")
    /\ campaigns = <<>>
    /\ charges = 0
    /\ pc = "tier"
    /\ call = [op |-> "upgrade_tier", donor_id |-> 1]
    /\ result = "pending"
    /\ report = NoReport

NextTier == RecordTier

SpecTier == InitTier /\ [][NextTier]_vars

----------------------------------------------------------------------------
(* Helpers of the properties *)

RECURSIVE SumAmounts(_, _)
\* the sum of the amounts of the rows of dn whose donor is donor_id
SumAmounts(dn, donor_id) ==
    IF dn = <<>> THEN 0
    ELSE (IF Head(dn).donor_id = donor_id THEN Head(dn).amount ELSE 0)
            + SumAmounts(Tail(dn), donor_id)

DonationsOf(donor_id) == {i \in DOMAIN donations : donations[i].donor_id = donor_id}

GivenBy(donor_id) == SumAmounts(donations, donor_id)

NoDuplicates(list) ==
    \A i, j \in DOMAIN list : list[i] = list[j] => i = j

ListSet(list) == {list[i] : i \in DOMAIN list}

RECURSIVE SumRows(_)
\* the sum of the amounts of the donations with the row ids in ids
SumRows(ids) ==
    IF ids = {} THEN 0
    ELSE LET i == CHOOSE i \in ids : TRUE
         IN  donations[i].amount + SumRows(ids \ {i})

DonationsFor(name) == {i \in DOMAIN donations : donations[i].campaign = name}

\* the stored donors with a donation received in the year
GaveIn(year) ==
    {d \in DOMAIN donors :
        \E i \in DOMAIN donations :
            donations[i].donor_id = d /\ donations[i].received_at = year}

DonorsOfTier(tier) == {d \in DOMAIN donors : donors[d].tier = tier}

RECURSIVE SumTotals(_)
\* the sum of total_given of the donors with the row ids in ids
SumTotals(ids) ==
    IF ids = {} THEN 0
    ELSE LET d == CHOOSE d \in ids : TRUE
         IN  donors[d].total_given + SumTotals(ids \ {d})

RECURSIVE SumCounts(_, _)
\* the sum of the counts a tier summary reports for the tiers given
SumCounts(summary, tiers) ==
    IF tiers = {} THEN 0
    ELSE LET t == CHOOSE t \in tiers : TRUE
         IN  summary[t].count + SumCounts(summary, tiers \ {t})

RECURSIVE SumGiven(_, _)
\* the sum of the totals a tier summary reports for the tiers given
SumGiven(summary, tiers) ==
    IF tiers = {} THEN 0
    ELSE LET t == CHOOSE t \in tiers : TRUE
         IN  summary[t].total_given + SumGiven(summary, tiers \ {t})

GoalsOf(name) ==
    {campaigns[i].goal : i \in {j \in DOMAIN campaigns : campaigns[j].name = name}}

----------------------------------------------------------------------------
(* Properties *)

\* C1: in every committed state each donor's total_given is the sum of the
\* amounts of the stored donations that reference the donor (0 without any).
TotalMatchesDonations ==
    \A d \in DOMAIN donors : donors[d].total_given = GivenBy(d)

TotalMatchesDonationsWitness ==
    \E d \in DOMAIN donors :
        /\ Cardinality(DonationsOf(d)) >= 2
        /\ donors[d].total_given = 49000

\* C2: whenever no record_donation call is between its transaction and its
\* tier recalculation, every donor's tier is the tier policy applied to the
\* stored total; a donor without donations is bronze with total 0.
TierMatchesTotal ==
    pc # "tier" =>
        \A d \in DOMAIN donors :
            /\ donors[d].tier = _calculate_tier(donors[d].total_given)
            /\ DonationsOf(d) = {} =>
                  donors[d].tier = BRONZE /\ donors[d].total_given = 0

\* a total lowered from platinum to gold by a negative amount
TierMatchesTotalWitness ==
    /\ pc = "idle"
    /\ \E d \in DOMAIN donors :
        /\ donors[d].tier = GOLD
        /\ \E i \in DonationsOf(d) : donations[i].amount = 50000

\* C3: no committed state holds a donor whose total includes a donation while
\* the tier still reflects the old total: tier and total agree in every
\* committed state, also between the commits of one record_donation call.
NoHalfAppliedDonation ==
    \A d \in DOMAIN donors :
        donors[d].tier = _calculate_tier(donors[d].total_given)

\* C4: each donor's campaign list has no duplicates and holds exactly the
\* campaign names of the donations recorded for the donor.
CampaignsMatchDonations ==
    \A d \in DOMAIN donors :
        /\ NoDuplicates(donors[d].campaigns)
        /\ ListSet(donors[d].campaigns) =
              {donations[i].campaign : i \in DonationsOf(d)}

CampaignsMatchDonationsWitness ==
    \E d \in DOMAIN donors :
        /\ Len(donors[d].campaigns) = 1
        /\ Cardinality(DonationsOf(d)) = 2

\* C5: once the tier is recalculated, a total below 1000 (negative ones
\* included) is bronze, 1000 up to 9999 silver, 10000 up to 49999 gold,
\* 50000 and above platinum.
TierPolicyThresholds ==
    pc = "idle" =>
        \A d \in DOMAIN donors :
            LET t == donors[d].total_given
                tier == donors[d].tier
            IN  /\ t < 1000 => tier = "bronze"
                /\ (1000 <= t /\ t < 10000) => tier = "silver"
                /\ (10000 <= t /\ t < 50000) => tier = "gold"
                /\ t >= 50000 => tier = "platinum"

TierPolicyThresholdsWitness ==
    /\ pc = "idle"
    /\ \E d \in DOMAIN donors :
        donors[d].total_given = 10000 /\ donors[d].tier = "gold"

\* C6: record_donation for a donor id that is not stored raises ValueError
\* (not found) and changes neither table; every stored donation references
\* a stored donor.
DonationsReferenceDonors ==
    \A i \in DOMAIN donations : donations[i].donor_id \in DOMAIN donors

RecordUnknownDonor ==
    /\ []DonationsReferenceDonors
    /\ [][\A donor_id \in DonorIds, amount \in Amounts, campaign \in CampaignNames,
             method \in Methods, received_at \in ReceivedAts :
            (donor_id \notin DOMAIN donors
               /\ record_donation(donor_id, amount, campaign, method, received_at))
            => (result' = "ValueError" /\ UNCHANGED <<donors, donations>>)]_vars

RecordUnknownDonorWitness ==
    /\ result = "ValueError"
    /\ donors # <<>>
    /\ donations # <<>>

\* C7 as stated: acknowledge_donation and send_receipt with an id that is
\* not stored raise the not-found error and leave the donations unchanged.
FlagUnknownDonationRaises ==
    [][\A donation_id \in DonationIds :
          (donation_id \notin DOMAIN donations
             /\ (acknowledge_donation(donation_id) \/ send_receipt(donation_id)))
          => (result' = "ValueError" /\ donations' = donations)]_vars

\* C7 amended: acknowledge_donation and send_receipt with an id that is not
\* stored return None, raise nothing, and leave the donations unchanged.
FlagUnknownDonationReturnsNone ==
    [][\A donation_id \in DonationIds :
          (donation_id \notin DOMAIN donations
             /\ (acknowledge_donation(donation_id) \/ send_receipt(donation_id)))
          => (result' = "None" /\ donations' = donations)]_vars

FlagUnknownDonationWitness ==
    /\ result = "None"
    /\ donations # <<>>

\* C8: send_receipt on a stored donation sets tax_receipt_sent and
\* acknowledged; every stored donation with tax_receipt_sent is acknowledged.
ReceiptSentIsAcknowledged ==
    \A i \in DOMAIN donations :
        donations[i].tax_receipt_sent => donations[i].acknowledged

ReceiptImpliesAcknowledged ==
    /\ []ReceiptSentIsAcknowledged
    /\ [][\A donation_id \in DonationIds :
            (donation_id \in DOMAIN donations /\ send_receipt(donation_id))
            => /\ donations'[donation_id].tax_receipt_sent
               /\ donations'[donation_id].acknowledged
               /\ result' = "ok"]_vars

\* a receipt sent for a donation that was not acknowledged before
ReceiptImpliesAcknowledgedWitness ==
    \E i, j \in DOMAIN donations :
        /\ donations[i].tax_receipt_sent
        /\ ~donations[j].acknowledged

\* C9: in the gateway flow no step up to and including the charge writes to
\* the store; a missing package ends the call with ImportError and a failed
\* charge with the gateway's error, the tables unchanged; a donation is
\* inserted only after a successful charge, with the charge's settlement
\* reference and amount = amount_cents / 100.
StripeDonationsCharged ==
    \A i \in DOMAIN donations :
        donations[i].method = STRIPE => donations[i].stripe_charge_id \in 1..charges

UniqueKeys ==
    /\ \A i, j \in DOMAIN donors : donors[i].email = donors[j].email => i = j
    /\ \A i, j \in DOMAIN campaigns : campaigns[i].name = campaigns[j].name => i = j

DuplicateKeyConflict ==
    /\ []UniqueKeys
    /\ [][\A email \in Emails :
            ((\E i \in DOMAIN donors : donors[i].email = email) /\ add_donor(email))
            => (result' = "IntegrityError"
                  /\ UNCHANGED <<donors, donations, campaigns>>)]_vars
    /\ [][\A name \in CampaignNames, goal \in Goals :
            ((\E i \in DOMAIN campaigns : campaigns[i].name = name)
               /\ create_campaign(name, goal))
            => (result' = "IntegrityError"
                  /\ UNCHANGED <<donors, donations, campaigns>>)]_vars

DuplicateKeyConflictWitness ==
    /\ result = "IntegrityError"
    /\ Len(donors) = MaxDonors
    /\ campaigns # <<>>

\* C11 as stated: ltv raises the not-found error for an unknown donor and
\* returns the all-zero report for a donor without donations; otherwise
\* donation_count is the number of the donor's stored donations, ltv is the
\* donor's total_given and average_gift is exactly total_given /
\* donation_count.
LtvAverageExact ==
    [][\A donor_id \in DonorIds : ltv(donor_id) =>
        IF donor_id \notin DOMAIN donors
        THEN result' = "ValueError" /\ report' = NoReport
        ELSE IF DonationsOf(donor_id) = {}
        THEN /\ report'.ltv = 0
             /\ report'.donation_count = 0
             /\ report'.average_gift = 0
             /\ report'.campaigns = <<>>
        ELSE /\ report'.donation_count = Cardinality(DonationsOf(donor_id))
             /\ report'.ltv = 100 * donors[donor_id].total_given
             /\ report'.average_gift * report'.donation_count =
                   100 * donors[donor_id].total_given]_vars

\* C11: ltv raises the not-found error for an unknown donor and returns the
\* all-zero report for a donor without donations; otherwise donation_count
\* is the number of the donor's stored donations, ltv is the donor's
\* total_given and average_gift is total_given / donation_count rounded to
\* two decimals (within half a hundredth of the quotient).
LtvAverageRounded ==
    [][\A donor_id \in DonorIds : ltv(donor_id) =>
        IF donor_id \notin DOMAIN donors
        THEN result' = "ValueError" /\ report' = NoReport
        ELSE IF DonationsOf(donor_id) = {}
        THEN /\ result' = "ok"
             /\ report'.ltv = 0
             /\ report'.donation_count = 0
             /\ report'.average_gift = 0
             /\ report'.campaigns = <<>>
        ELSE /\ result' = "ok"
             /\ report'.donation_count = Cardinality(DonationsOf(donor_id))
             /\ report'.ltv = 100 * donors[donor_id].total_given
             /\ LET off == report'.average_gift * report'.donation_count
                             - 100 * donors[donor_id].total_given
                IN  2 * off <= report'.donation_count
                    /\ 2 * off >= 0 - report'.donation_count]_vars

\* the report of three donations whose average has no exact two decimals
LtvAverageRoundedWitness ==
    /\ report.op = "ltv"
    /\ report.donation_count = 3
    /\ report.average_gift * 3 # report.ltv
    /\ Len(donors) = 2

\* C12: campaign_summary(name) is computed over exactly the stored donations
\* whose campaign is name: donor_count is their number, total_raised the sum
\* of their amounts, and progress_pct is total_raised / goal * 100 rounded to
\* one decimal for the goal of the campaign record with this name, and 0 when
\* that goal is 0 or no such record exists.
CampaignSummaryMatches ==
    [][\A name \in CampaignNames : campaign_summary(name) =>
        /\ report'.donor_count = Cardinality(DonationsFor(name))
        /\ report'.total_raised = 100 * SumRows(DonationsFor(name))
        /\ IF GoalsOf(name) \subseteq {0}
           THEN report'.progress_pct = 0
           ELSE \E goal \in GoalsOf(name) :
                  LET off == report'.progress_pct * goal
                                - 1000 * SumRows(DonationsFor(name))
                  IN  2 * off <= goal /\ 2 * off >= 0 - goal]_vars

\* a summary of two donations to a campaign with a goal, the other campaign
\* having a donation too; the percentage is a rounded one
CampaignSummaryMatchesWitness ==
    /\ report.op = "campaign_summary"
    /\ report.donor_count = 2
    /\ report.goal = 3000
    /\ report.progress_pct = 667
    /\ Len(donations) = 3

RetentionRateExact ==
    [][retention_report =>
        LET this == GaveIn(ThisYear)
            last == GaveIn(ThisYear - 1)
        IN  /\ report'.retained_donors = Cardinality(this \cap last)
            /\ report'.lapsed_donors = Cardinality(last \ this)
            /\ report'.new_donors = Cardinality(this \ last)
            /\ report'.retained_donors + report'.lapsed_donors = Cardinality(last)
            /\ IF last = {}
               THEN report'.retention_rate = 0
               ELSE report'.retention_rate * Cardinality(last) =
                        1000 * report'.retained_donors]_vars

\* C14: with Y the current year, retained counts the donors with a donation
\* in Y and in Y-1, lapsed those with one in Y-1 and none in Y, new those
\* with one in Y and none in Y-1; the three sets are pairwise disjoint,
\* retained + lapsed is the number of prior-year donors, and retention_rate
\* is retained / prior-year donors rounded to three decimals (within half a
\* thousandth of the quotient), 0 when there are no prior-year donors.
RetentionRateRounded ==
    [][retention_report =>
        LET this == GaveIn(ThisYear)
            last == GaveIn(ThisYear - 1)
            kept == retained(DonorsInYear(ThisYear), DonorsInYear(ThisYear - 1))
            lost == lapsed(DonorsInYear(ThisYear), DonorsInYear(ThisYear - 1))
            came == new_donors(DonorsInYear(ThisYear), DonorsInYear(ThisYear - 1))
        IN  /\ kept = this \cap last /\ lost = last \ this /\ came = this \ last
            /\ kept \cap lost = {} /\ kept \cap came = {} /\ lost \cap came = {}
            /\ report'.retained_donors = Cardinality(this \cap last)
            /\ report'.lapsed_donors = Cardinality(last \ this)
            /\ report'.new_donors = Cardinality(this \ last)
            /\ report'.retained_donors + report'.lapsed_donors = Cardinality(last)
            /\ IF last = {}
               THEN report'.retention_rate = 0
               ELSE LET off == report'.retention_rate * Cardinality(last)
                                - 1000 * report'.retained_donors
                    IN  2 * off <= Cardinality(last)
                        /\ 2 * off >= 0 - Cardinality(last)]_vars

\* three donors gave last year and one of them again this year: the rate is
\* a rounded third
RetentionRateRoundedWitness ==
    /\ report.op = "retention_report"
    /\ report.retained_donors = 1
    /\ report.lapsed_donors = 2
    /\ report.retention_rate = 333

\* C15: tier_summary has an entry exactly for each tier that has a donor,
\* with the number of donors whose tier it is and the sum of their
\* total_given; the counts of all entries add up to the number of stored
\* donors and the sums to the sum of all donors' total_given.
TierSummaryMatches ==
    [][tier_summary =>
        LET tiers == report'.tiers
        IN  /\ DOMAIN tiers = {t \in DonorTier : DonorsOfTier(t) # {}}
            /\ \A t \in DOMAIN tiers :
                  /\ tiers[t].count = Cardinality(DonorsOfTier(t))
                  /\ tiers[t].total_given = 100 * SumTotals(DonorsOfTier(t))
            /\ SumCounts(tiers, DOMAIN tiers) = Len(donors)
            /\ SumGiven(tiers, DOMAIN tiers) = 100 * SumTotals(DOMAIN donors)]_vars

\* a summary of two donors in two tiers, one of them platinum
TierSummaryMatchesWitness ==
    /\ report.op = "tier_summary"
    /\ Cardinality(DOMAIN report.tiers) = 2
    /\ PLATINUM \in DOMAIN report.tiers
    /\ report.tiers[PLATINUM].total_given = 5100000

\* C16: a donation is created by record_donation with acknowledged and
\* tax_receipt_sent false and is never deleted; afterwards its donor,
\* amount, campaign and received_at never change, each of its flags only
\* goes from false to true, and acknowledge_donation on a donation already
\* acknowledged leaves it unchanged.
DonationLifecycle ==
    [][/\ Len(donations') >= Len(donations)
       /\ \A i \in DOMAIN donations :
            /\ donations'[i].donor_id = donations[i].donor_id
            /\ donations'[i].amount = donations[i].amount
            /\ donations'[i].campaign = donations[i].campaign
            /\ donations'[i].received_at = donations[i].received_at
            /\ donations[i].acknowledged => donations'[i].acknowledged
            /\ donations[i].tax_receipt_sent => donations'[i].tax_receipt_sent
       /\ \A i \in DOMAIN donations' \ DOMAIN donations :
            /\ ~donations'[i].acknowledged
            /\ ~donations'[i].tax_receipt_sent
            /\ i = Len(donations) + 1
            /\ pc \in {"idle", "charged"} /\ pc' = "tier"
       /\ \A donation_id \in DonationIds :
            (/\ donation_id \in DOMAIN donations
             /\ donations[donation_id].acknowledged
             /\ acknowledge_donation(donation_id))
            => donations'[donation_id] = donations[donation_id]]_vars

\* a donation acknowledged without a receipt next to one with both flags set
DonationLifecycleWitness ==
    /\ Len(donations) = 2
    /\ \E i, j \in DOMAIN donations :
        /\ donations[i].acknowledged /\ ~donations[i].tax_receipt_sent
        /\ donations[j].acknowledged /\ donations[j].tax_receipt_sent
    /\ result = "ok"
    /\ pc = "idle"

\* C17: in every committed state every donor's total_given is non-negative,
\* whatever amounts record_donation was given.
TotalGivenNonNegative ==
    \A d \in DOMAIN donors : donors[d].total_given >= 0

====
